---- MODULE Spec2Model ----
(***************************************************************************)
(* A model of the cables.guide data layer (cableData: loaders, catalog,    *)
(* derived metrics, slug lookup, search) and of the card renderer          *)
(* (cableCard: escaping, highlighting, legacy classification, link).       *)
(*                                                                         *)
(* Representation.  A JavaScript string is the sequence of its characters  *)
(* (Chars("USB-C")), so that lower-casing, substring search and the        *)
(* regular expressions are computed character by character.  An optional   *)
(* value (undefined / null) is Null, a present one v is Some(v).  An       *)
(* absent string and the empty string are both <<>>: the code tests every   *)
(* optional string by truthiness only, which does not tell them apart.     *)
(* An object keyed by name (protocols) is the sequence of its entries in   *)
(* insertion order, each entry carrying its key.                           *)
(***************************************************************************)
EXTENDS Integers, Sequences, FiniteSets, TLC

VARIABLES
  store,    \* the data directory: category directory name -> its files, in readdir order
  call,     \* the function that ran last ("init" before any call)
  input,    \* its arguments
  output,   \* its return value
  logged,   \* the number of console.error lines it wrote
  link      \* the link of the card rendered last, with the record it was rendered from

vars == <<store, call, input, output, logged, link>>

----------------------------------------------------------------------------
(* Bounds of the model *)

MaxFiles == 2       \* files in the data directory, over all categories
MaxVariants == 2    \* protocol variants of a generated record
MaxLen == 3         \* characters of a generated text
MaxPoints == 1      \* confusion points of a generated record

----------------------------------------------------------------------------
(* Values *)

Null == <<>>
Some(v) == <<v>>

\* the sequence with the values of f, a function on 1..n
AsSeq(f) == f \o <<>>

Chars(s) == AsSeq([i \in 1..Len(s) |-> SubSeq(s, i, i)])

\* In(value), with value computed once, before In is
Let(value, In(_)) == CHOOSE r \in {In(v) : v \in {value}} : TRUE

Range(f) == {f[i] : i \in DOMAIN f}

SeqsUpTo(S, n) == UNION {{AsSeq(f) : f \in [1..k -> S]} : k \in 0..n}

RECURSIVE Flatten(_)
Flatten(ss) ==
  IF ss = <<>> THEN <<>> ELSE Head(ss) \o Flatten(Tail(ss))

UpperCase == Chars("ABCDEFGHIJKLMNOPQRSTUVWXYZ")
LowerCase == Chars("abcdefghijklmnopqrstuvwxyz")
Digits == Chars("0123456789")

UpperSet == Range(UpperCase)
LowerSet == Range(LowerCase)
DigitSet == Range(Digits)

IsDigit(c) == c \in DigitSet
IsSpace(c) == c \in {" ", "\t", "\n"}

LowerOf == [c \in UpperSet |-> LowerCase[CHOOSE i \in DOMAIN UpperCase : UpperCase[i] = c]]

\* String.prototype.toLowerCase, one character
LowerChar(c) == IF c \in UpperSet THEN LowerOf[c] ELSE c

toLowerCase(s) == AsSeq([i \in DOMAIN s |-> LowerChar(s[i])])

\* String.prototype.includes
includes(hay, needle) ==
  \E i \in 0..(Len(hay) - Len(needle)) :
    SubSeq(hay, i + 1, i + Len(needle)) = needle

\* The index after the maximal run of digits that starts at i: \d+ or \d*,
\* greedy.  When what follows the run does not match, giving digits back
\* cannot help, as the next character is then a digit still.
DigitsEnd(s, i) ==
  CHOOSE j \in i..(Len(s) + 1) :
    /\ \A k \in i..(j - 1) : IsDigit(s[k])
    /\ (j = Len(s) + 1 \/ ~IsDigit(s[j]))

\* The index after the maximal run of white space that starts at i: \s*
SpacesEnd(s, i) ==
  CHOOSE j \in i..(Len(s) + 1) :
    /\ \A k \in i..(j - 1) : IsSpace(s[k])
    /\ (j = Len(s) + 1 \/ ~IsSpace(s[j]))

DigitValOf == [c \in DigitSet |-> (CHOOSE i \in DOMAIN Digits : Digits[i] = c) - 1]

DigitVal(c) == DigitValOf[c]

\* 10^n
RECURSIVE Pow10(_)
Pow10(n) == IF n = 0 THEN 1 ELSE 10 * Pow10(n - 1)

\* the sum of the numbers f[i]
RECURSIVE Sum(_)
Sum(f) == IF f = <<>> THEN 0 ELSE Head(f) + Sum(Tail(f))

\* parseInt(digits, 10) of a run of decimal digits
parseInt(d) ==
  Let(d, LAMBDA ds : Sum([i \in DOMAIN ds |-> DigitVal(ds[i]) * Pow10(Len(ds) - i)]))

\* JavaScript truthiness of an optional number: undefined and 0 are falsy
Truthy(n) == n # Null /\ n[1] # 0

Max(S) == CHOOSE m \in S : \A x \in S : x <= m
Min(S) == CHOOSE m \in S : \A x \in S : m <= x

----------------------------------------------------------------------------
(* Records: CableSpec, ProtocolSpec *)

Protocol(key, version, mbps, power_delivery, features) ==
  [key |-> key, version |-> version, data_rate_mbps |-> mbps,
   power_delivery |-> power_delivery, features |-> features]

CableSpec(type, full_name, common_names, protocols, reversible, power_max, common_devices, confusion_points, notes) ==
  [type |-> type, full_name |-> full_name, common_names |-> common_names,
   protocols |-> protocols,
   connector |-> [reversible |-> reversible],
   electrical |-> [power_max |-> power_max],
   common_devices |-> common_devices,
   confusion_points |-> confusion_points, notes |-> notes]

----------------------------------------------------------------------------
(* Derived metrics *)

\* the mutant: the maximum forgotten, the first variant's rate returned
getMaxDataRateFirst(cable) ==
  IF cable.protocols = <<>> THEN 0 ELSE cable.protocols[1].data_rate_mbps

getMaxDataRate(cable) ==
  LET rates == {cable.protocols[i].data_rate_mbps : i \in DOMAIN cable.protocols}
  IN  Max(rates \cup {0})

\* power_delivery.match(/(\d+)\s*W/i) can match with its digits starting at i
WattMatchAt(s, i) ==
  /\ IsDigit(s[i])
  /\ \E j \in {DigitsEnd(s, i)} :
       \E k \in {SpacesEnd(s, j)} :
         k <= Len(s) /\ LowerChar(s[k]) = "w"

\* power_delivery.match(/(\d+)\s*W/i): the first group of the leftmost match
wattMatch(s) ==
  Let({j \in DOMAIN s : WattMatchAt(s, j)},
      LAMBDA starts :
        IF starts = {} THEN Null
        ELSE Let(Min(starts), LAMBDA i : Some(SubSeq(s, i, DigitsEnd(s, i) - 1))))

\* the body of the loop of getNormalizedPowerWatts for one variant: the new
\* maxPower
PowerStep(protocol, maxPower) ==
  IF protocol.power_delivery = <<>> THEN maxPower
  ELSE Let(wattMatch(protocol.power_delivery),
           LAMBDA m :
             IF m = Null THEN maxPower
             ELSE Let(parseInt(m[1]),
                      LAMBDA watts : IF watts > maxPower THEN watts ELSE maxPower))

\* the loop of getNormalizedPowerWatts over the first n variants, from
\* maxPower = 0
RECURSIVE PowerLoop(_, _)
PowerLoop(protocols, n) ==
  IF n = 0 THEN 0
  ELSE Let(PowerLoop(protocols, n - 1),
           LAMBDA maxPower : PowerStep(protocols[n], maxPower))

getNormalizedPowerWatts(cable) ==
  IF Truthy(cable.electrical.power_max)
  THEN cable.electrical.power_max
  ELSE Let(PowerLoop(cable.protocols, Len(cable.protocols)),
           LAMBDA maxPower : IF maxPower > 0 THEN Some(maxPower) ELSE Null)

----------------------------------------------------------------------------
(* Record loader and category catalog *)

\* The collation order of localeCompare on the characters the model uses:
\* white space, punctuation, symbols, digits, letters (case ignored at the
\* first level)
CollationOrder == Chars(" _-,;:!?.()/&<>0123456789abcdefghijklmnopqrstuvwxyz")

CollationWeightOf ==
  [c \in Range(CollationOrder) |-> CHOOSE i \in DOMAIN CollationOrder : CollationOrder[i] = c]

CollationWeight(c) ==
  LET l == LowerChar(c)
  IN  IF l \in DOMAIN CollationWeightOf THEN CollationWeightOf[l] ELSE 0

\* -1, 0 or 1 as the weights of a are before, equal to or after those of b
CompareWeights(a, b) ==
  Let({i \in 1..Min({Len(a), Len(b)}) : CollationWeight(a[i]) # CollationWeight(b[i])},
      LAMBDA diff :
        IF diff # {}
        THEN Let(Min(diff), LAMBDA i :
               IF CollationWeight(a[i]) < CollationWeight(b[i]) THEN -1 ELSE 1)
        ELSE IF Len(a) < Len(b) THEN -1
        ELSE IF Len(a) > Len(b) THEN 1
        ELSE 0)

\* a.localeCompare(b): the letters first, then, between strings that differ
\* in case only, lower case before upper case at the first difference
localeCompare(a, b) ==
  Let(CompareWeights(a, b),
      LAMBDA primary :
        IF primary # 0 THEN primary
        ELSE Let({i \in DOMAIN a : a[i] # b[i]},
                 LAMBDA diff :
                   IF diff = {} THEN 0
                   ELSE Let(Min(diff), LAMBDA i :
                          IF a[i] = LowerChar(a[i]) THEN -1 ELSE 1)))

\* x put into the sorted sequence front, after the elements not after it
InsertByType(front, x) ==
  Let(Cardinality({i \in DOMAIN front : localeCompare(front[i].type, x.type) <= 0}),
      LAMBDA k : SubSeq(front, 1, k) \o <<x>> \o SubSeq(front, k + 1, Len(front)))

\* Array.prototype.sort((a, b) => a.type.localeCompare(b.type)), which is
\* stable, of the first n of cables
RECURSIVE SortFirst(_, _)
SortFirst(cables, n) ==
  IF n = 0 THEN <<>>
  ELSE Let(SortFirst(cables, n - 1), LAMBDA front : InsertByType(front, cables[n]))

sortByType(cables) == SortFirst(cables, Len(cables))

\* A file of a category directory: whether its name ends in ".json", and
\* what JSON.parse makes of its content (Null: JSON.parse throws)
File(json, parsed) == [json |-> json, parsed |-> parsed]

\* loadCategoryData: the records and the number of errors logged.  One
\* try/catch holds readdirSync, every readFileSync/JSON.parse and the sort.
loadCategoryData(dir, category) ==
  IF category \notin DOMAIN dir
  THEN [value |-> <<>>, errors |-> 1]
  ELSE Let(SelectSeq(dir[category], LAMBDA f : f.json),
           LAMBDA files :
             IF \E i \in DOMAIN files : files[i].parsed = Null
             THEN [value |-> <<>>, errors |-> 1]
             ELSE [value |-> sortByType([i \in DOMAIN files |-> files[i].parsed[1]]),
                   errors |-> 0])

\* the registry of getAllCategories
categories ==
  << [name |-> "USB", slug |-> "usb"],
     [name |-> "Video", slug |-> "video"],
     [name |-> "Audio", slug |-> "audio"],
     [name |-> "Power", slug |-> "power"] >>

getAllCategories(dir) ==
  AsSeq([i \in DOMAIN categories |->
           [name |-> categories[i].name, slug |-> categories[i].slug,
            cables |-> loadCategoryData(dir, categories[i].slug).value]])

\* the console.error lines of one getAllCategories
getAllCategoriesErrors(dir) ==
  Sum([i \in DOMAIN categories |-> loadCategoryData(dir, categories[i].slug).errors])

\* the records in the order of the nested loops of getCableBySlug and of
\* flatMap in searchCables, each with the slug of its category
catalogEntries(dir) ==
  Let(getAllCategories(dir),
      LAMBDA cats :
        Flatten([i \in DOMAIN cats |->
          [j \in DOMAIN cats[i].cables |->
             [cable |-> cats[i].cables[j], category |-> cats[i].slug]]]))

----------------------------------------------------------------------------
(* Slug resolver *)

SlugChars == LowerSet \cup DigitSet

IsSlugChar(c) == c \in SlugChars

\* slugify of the specification: lower case, every maximal run of characters
\* outside [a-z0-9] replaced by one '-'
RECURSIVE SlugifyRuns(_, _)
SlugifyRuns(type, n) ==
  IF n = 0 THEN <<>>
  ELSE Let(SlugifyRuns(type, n - 1),
           LAMBDA front :
             IF IsSlugChar(LowerChar(type[n])) THEN Append(front, LowerChar(type[n]))
             ELSE IF front # <<>> /\ front[Len(front)] = "-" THEN front
             ELSE Append(front, "-"))

\* the mutant: every run of other characters becomes one '-'
cableSlugCollapsing(type) == SlugifyRuns(type, Len(type))

\* cable.type.toLowerCase().replace(/[^a-z0-9]/g, '-') in getCableBySlug
cableSlug(type) ==
  LET lower == toLowerCase(type)
  IN  AsSeq([i \in DOMAIN lower |-> IF IsSlugChar(lower[i]) THEN lower[i] ELSE "-"])

getCableBySlug(dir, slug) ==
  Let(catalogEntries(dir),
      LAMBDA entries :
        Let({i \in DOMAIN entries : cableSlug(entries[i].cable.type) = slug},
            LAMBDA hits : IF hits = {} THEN Null ELSE Some(entries[Min(hits)])))

----------------------------------------------------------------------------
(* Search *)

\* parseFloat of digits, an optional point and digits, in thousandths: the
\* model keeps three decimals, which is exact for the queries it draws
parseFloat(g) ==
  Let({i \in DOMAIN g : g[i] = "."},
      LAMBDA dots :
        Let(IF dots = {} THEN Len(g) + 1 ELSE Min(dots),
            LAMBDA dot :
              parseInt(SubSeq(g, 1, dot - 1)) * 1000
                + parseInt(SubSeq(g \o Chars("0000"), dot + 1, dot + 3))))

\* the index after (\d+\.?\d*) matched from i, where s[i] is a digit
NumberEnd(s, i) ==
  Let(DigitsEnd(s, i),
      LAMBDA j : Let(IF j <= Len(s) /\ s[j] = "." THEN j + 1 ELSE j,
                     LAMBDA k : DigitsEnd(s, k)))

\* the index after (\d+\.?\d*)\s* matched from i
NumberSpaceEnd(s, i) == Let(NumberEnd(s, i), LAMBDA e : SpacesEnd(s, e))

rateUnits == {Chars("gbps"), Chars("mbps"), Chars("gb/s"), Chars("mb/s")}

\* query.match(/(\d+\.?\d*)\s*(gbps|mbps|gb\/s|mb\/s)/i) can match from i
RateMatchAt(q, i) ==
  /\ IsDigit(q[i])
  /\ \E m \in {NumberSpaceEnd(q, i)} :
       m + 3 <= Len(q) /\ toLowerCase(SubSeq(q, m, m + 3)) \in rateUnits

\* dataRateMatch: the two groups of the leftmost match
dataRateMatch(query) ==
  Let({j \in DOMAIN query : RateMatchAt(query, j)},
      LAMBDA starts :
        IF starts = {} THEN Null
        ELSE Let(Min(starts), LAMBDA i :
               Let(NumberSpaceEnd(query, i), LAMBDA m :
                 Some([number |-> SubSeq(query, i, NumberEnd(query, i) - 1),
                       unit |-> SubSeq(query, m, m + 3)]))))

\* targetRateMbps, in thousandths of a Mbps
targetRateMbps(query) ==
  Let(dataRateMatch(query),
      LAMBDA m :
        IF m = Null THEN Null
        ELSE Let(parseFloat(m[1].number), LAMBDA value :
               Some(IF LowerChar(m[1].unit[1]) = "g" THEN value * 1000 ELSE value)))

\* query.match(/(\d+\.?\d*)\s*w/i) can match from i
PowerMatchAt(q, i) ==
  /\ IsDigit(q[i])
  /\ \E m \in {NumberSpaceEnd(q, i)} : m <= Len(q) /\ LowerChar(q[m]) = "w"

\* targetPower, in thousandths of a watt
targetPower(query) ==
  Let({j \in DOMAIN query : PowerMatchAt(query, j)},
      LAMBDA starts :
        IF starts = {} THEN Null
        ELSE Let(Min(starts), LAMBDA i :
               Some(parseFloat(SubSeq(query, i, NumberEnd(query, i) - 1)))))

textMatch(cable, searchTerm) ==
  LET has(text) == includes(toLowerCase(text), searchTerm)
  IN  \/ has(cable.type)
      \/ has(cable.full_name)
      \/ \E i \in DOMAIN cable.common_names : has(cable.common_names[i])
      \/ \E i \in DOMAIN cable.common_devices : has(cable.common_devices[i])
      \/ \E i \in DOMAIN cable.protocols : has(cable.protocols[i].key)
      \/ \E i \in DOMAIN cable.protocols :
            \/ has(cable.protocols[i].version)
            \/ \E j \in DOMAIN cable.protocols[i].features :
                 has(cable.protocols[i].features[j])

rateMatch(cable, target) ==
  IF Truthy(target)
  THEN \E i \in DOMAIN cable.protocols :
         cable.protocols[i].data_rate_mbps * 1000 >= target[1]
  ELSE FALSE

\* the mutant: the power found in the protocol text stands in for the
\* declared one
powerMatchResultNormalized(cable, target) ==
  IF Truthy(target)
  THEN LET watts == getNormalizedPowerWatts(cable)
       IN  Truthy(watts) /\ watts[1] * 1000 >= target[1]
  ELSE FALSE

powerMatchResult(cable, target) ==
  IF Truthy(target)
  THEN /\ Truthy(cable.electrical.power_max)
       /\ cable.electrical.power_max[1] * 1000 >= target[1]
  ELSE FALSE

\* the filter of searchCables
keep(cable, searchTerm, targetRate, targetPower_) ==
  \/ textMatch(cable, searchTerm)
  \/ rateMatch(cable, targetRate)
  \/ powerMatchResult(cable, targetPower_)

searchCables(dir, query) ==
  Let(<<catalogEntries(dir), toLowerCase(query), targetRateMbps(query), targetPower(query)>>,
      LAMBDA v :
        SelectSeq([i \in DOMAIN v[1] |-> v[1][i].cable],
                  LAMBDA cable : keep(cable, v[2], v[3], v[4])))

----------------------------------------------------------------------------
(* Card renderer *)

ClientCable(type, full_name, categorySlug, categoryName, max_rate_mbps, max_power, reversible, common_devices, confusion_points, notes) ==
  [type |-> type, full_name |-> full_name, categorySlug |-> categorySlug,
   categoryName |-> categoryName, max_rate_mbps |-> max_rate_mbps,
   max_power |-> max_power, reversible |-> reversible,
   common_devices |-> common_devices,
   confusion_points |-> confusion_points, notes |-> notes]

\* mbps / 1000 is kept as the fraction it is
formatDataRate(mbps) ==
  IF mbps >= 1000
  THEN [number |-> <<mbps, 1000>>, unit |-> "Gbps"]
  ELSE [number |-> <<mbps, 1>>, unit |-> "Mbps"]

\* the serialisation of one character of a text node by innerHTML
EscapeChar(c) ==
  IF c = "&" THEN Chars("&amp;")
  ELSE IF c = "<" THEN Chars("&lt;")
  ELSE IF c = ">" THEN Chars("&gt;")
  ELSE <<c>>

escapeHtml(text) == Flatten([i \in DOMAIN text |-> EscapeChar(text[i])])

\* The markup put around a match.  Each tag is kept as one element of the
\* output; no element of an escaped text is "<", so none equals a tag.
MarkOpen == "<mark class=\"bg-warning/30 text-foreground rounded px-0.5\">"
MarkClose == "</mark>"

\* escaped.replace(regex, '<mark ...>$1</mark>') from index i on: the regex
\* is the term with its metacharacters escaped, so it matches the term
\* literally, ignoring case, left to right without overlap
RECURSIVE ReplaceFrom(_, _, _)
ReplaceFrom(escaped, i, term) ==
  IF i > Len(escaped) THEN <<>>
  ELSE IF /\ i + Len(term) - 1 <= Len(escaped)
          /\ toLowerCase(SubSeq(escaped, i, i + Len(term) - 1)) = toLowerCase(term)
       THEN <<MarkOpen>> \o SubSeq(escaped, i, i + Len(term) - 1) \o <<MarkClose>>
              \o ReplaceFrom(escaped, i + Len(term), term)
       ELSE <<escaped[i]>> \o ReplaceFrom(escaped, i + 1, term)

highlightText(text, term) ==
  IF term = <<>> \/ text = <<>> THEN escapeHtml(text)
  ELSE ReplaceFrom(escapeHtml(text), 1, term)

isLegacy(cable) ==
  LET notesLower == toLowerCase(cable.notes)
  IN  \/ includes(notesLower, Chars("obsolete"))
      \/ includes(notesLower, Chars("legacy"))
      \/ includes(notesLower, Chars("phased out"))
      \/ \E i \in DOMAIN cable.confusion_points :
            \/ includes(toLowerCase(cable.confusion_points[i]), Chars("obsolete"))
            \/ includes(toLowerCase(cable.confusion_points[i]), Chars("deprecated"))

Badge(class, text) == [class |-> class, text |-> text]

\* cable.type.toLowerCase().replace(/[^a-z0-9]/g, '-') in the card's link
hrefSlug(type) ==
  LET lower == toLowerCase(type)
  IN  AsSeq([i \in DOMAIN lower |-> IF IsSlugChar(lower[i]) THEN lower[i] ELSE "-"])

\* createCableCard: the parts of the fragment that vary with its arguments
createCableCard(cable, term) ==
  LET legacy == isLegacy(cable)
      badges == <<Badge("badge-muted", escapeHtml(cable.categoryName))>>
                \o (IF cable.reversible
                    THEN <<Badge("badge-reversible", Chars("Reversible"))>> ELSE <<>>)
                \o (IF legacy THEN <<Badge("badge-muted", Chars("Legacy"))>> ELSE <<>>)
      shown == SubSeq(cable.common_devices, 1, Min({3, Len(cable.common_devices)}))
  IN  [href |-> [category |-> cable.categorySlug, slug |-> hrefSlug(cable.type)],
       ariaLabel |-> escapeHtml(cable.type),
       badges |-> badges,
       title |-> highlightText(cable.type, term),
       fullName |-> highlightText(cable.full_name, term),
       maxSpeed |-> formatDataRate(cable.max_rate_mbps),
       power |-> IF Truthy(cable.max_power) THEN cable.max_power ELSE Null,
       tags |-> AsSeq([i \in DOMAIN shown |-> escapeHtml(shown[i])]),
       overflow |-> IF Len(cable.common_devices) > 3
                    THEN Some(Len(cable.common_devices) - 3) ELSE Null,
       warning |-> IF Len(cable.confusion_points) > 0
                   THEN Some(escapeHtml(cable.confusion_points[1])) ELSE Null]

\* The record handed to the renderer for a loaded record (the pages build it)
toClientCable(entry, categoryName) ==
  ClientCable(entry.cable.type, entry.cable.full_name, entry.category, categoryName,
              getMaxDataRate(entry.cable), getNormalizedPowerWatts(entry.cable),
              entry.cable.connector.reversible, entry.cable.common_devices,
              entry.cable.confusion_points, entry.cable.notes)

----------------------------------------------------------------------------
(* The data directories the model draws *)

usbC ==
  CableSpec(Chars("USB-C"), Chars("USB Type-C"), <<Chars("Type-C")>>,
            <<Protocol(Chars("USB4"), Chars("USB4 v1"), 40000, Chars("240W"),
                       <<Chars("100W charging")>>)>>,
            TRUE, Null, <<Chars("Laptops")>>,
            <<Chars("Same plug, many speeds")>>, Chars("Current"))

usbCLower ==
  CableSpec(Chars("usb c"), Chars("Charge cable"), <<>>,
            <<Protocol(Chars("USB 2.0"), Chars("2.0"), 480, Chars("Up to 100W"), <<>>)>>,
            TRUE, Null, <<>>, <<>>, <<>>)

iecC13 ==
  CableSpec(Chars("IEC C13"), Chars("IEC 60320 C13"), <<Chars("Kettle lead")>>,
            <<>>, FALSE, Some(2500), <<Chars("PC")>>, <<>>, <<>>)

rcaL ==
  CableSpec(Chars("RCA (L)"), Chars("RCA phono"), <<>>,
            <<Protocol(Chars("Analog"), Chars("1"), 0, <<>>, <<>>)>>,
            FALSE, Some(50),
            <<Chars("Hi-fi"), Chars("TV"), Chars("VCR"), Chars("DVD"), Chars("Amp")>>,
            <<Chars("Deprecated on TVs")>>, Chars("Legacy connector"))

PoolCables == {usbC, usbCLower, iecC13, rcaL}

\* well-formed record files, a .json file that does not parse, and a file
\* that is not a .json file
PoolFiles ==
  {File(TRUE, Some(c)) : c \in PoolCables} \cup {File(TRUE, Null), File(FALSE, Null)}

DirNames == {categories[i].slug : i \in DOMAIN categories}

\* the files of directory d among the placed files p, in their order
RECURSIVE FilesOf(_, _)
FilesOf(p, d) ==
  IF p = <<>> THEN <<>>
  ELSE IF Head(p)[2] = d THEN <<Head(p)[1]>> \o FilesOf(Tail(p), d)
  ELSE FilesOf(Tail(p), d)

Stores ==
  {[d \in DirNames |-> FilesOf(p, d)] : p \in SeqsUpTo(PoolFiles \X DirNames, MaxFiles)}

CategoryArgs == DirNames \cup {"nosuch"}

SlugArgs == {Chars("usb-c"), Chars("rca-l"), Chars("hdmi")}

Queries ==
  {Chars("100W"), Chars("40 Gbps"), Chars("0 Mbps"), Chars("usb"),
   Chars("0.5gb/s"), Chars("10 Gbps 60 w"), Chars("0W")}

Terms == {<<>>, Chars("usb")}

----------------------------------------------------------------------------
(* The catalog.  Every call reads the data directory afresh and none writes *)
(* it, so a behaviour is one call made on a data directory, and after a    *)
(* card is rendered, the request for the page its link names.              *)

Init ==
  /\ store \in Stores
  /\ call = "init"
  /\ input = Null
  /\ output = Null
  /\ logged = 0
  /\ link = Null

LoadCategoryData(category) ==
  /\ call = "init"
  /\ call' = "loadCategoryData"
  /\ input' = category
  /\ output' = loadCategoryData(store, category).value
  /\ logged' = loadCategoryData(store, category).errors
  /\ link' = Null
  /\ UNCHANGED store

GetAllCategories ==
  /\ call = "init"
  /\ call' = "getAllCategories"
  /\ input' = Null
  /\ output' = getAllCategories(store)
  /\ logged' = getAllCategoriesErrors(store)
  /\ link' = Null
  /\ UNCHANGED store

GetCableBySlug(slug) ==
  /\ call = "init"
  /\ call' = "getCableBySlug"
  /\ input' = slug
  /\ output' = getCableBySlug(store, slug)
  /\ logged' = getAllCategoriesErrors(store)
  /\ link' = Null
  /\ UNCHANGED store

SearchCables(query) ==
  /\ call = "init"
  /\ call' = "searchCables"
  /\ input' = query
  /\ output' = searchCables(store, query)
  /\ logged' = getAllCategoriesErrors(store)
  /\ link' = Null
  /\ UNCHANGED store

\* a page renders the card of the k-th record of the catalog
RenderCard(k, term) ==
  /\ call = "init"
  /\ \E entries \in {catalogEntries(store)} :
       /\ k \in DOMAIN entries
       /\ \E name \in {c.name : c \in {d \in Range(categories) : d.slug = entries[k].category}} :
            \E cable \in {toClientCable(entries[k], Chars(name))} :
              \E card \in {createCableCard(cable, term)} :
                /\ input' = [cable |-> cable, highlightTerm |-> term]
                /\ output' = card
                /\ link' = Some([href |-> card.href, from |-> k])
  /\ call' = "createCableCard"
  /\ logged' = getAllCategoriesErrors(store)
  /\ UNCHANGED store

\* the link of the card rendered last is followed to the detail page
FollowLink ==
  /\ link # Null
  /\ call = "createCableCard"
  /\ call' = "getCableBySlug"
  /\ input' = link[1].href.slug
  /\ output' = getCableBySlug(store, link[1].href.slug)
  /\ logged' = getAllCategoriesErrors(store)
  /\ UNCHANGED <<store, link>>

Next ==
  \/ \E category \in CategoryArgs : LoadCategoryData(category)
  \/ GetAllCategories
  \/ \E slug \in SlugArgs : GetCableBySlug(slug)
  \/ \E query \in Queries : SearchCables(query)
  \/ \E k \in 1..MaxFiles, term \in Terms : RenderCard(k, term)
  \/ FollowLink

Spec == Init /\ [][Next]_vars

----------------------------------------------------------------------------
(* The pure functions, each applied to arguments drawn at the start *)

Rates == {0, 480, 40000}

PowerTexts ==
  {<<>>, Chars("100W"), Chars("0W"), Chars("5V 15 w"), Chars("PD 240 Watts"), Chars("none")}

PowerMaxes == {Null, Some(0), Some(60)}

\* a record with the protocol variants vs, each a pair of data_rate_mbps and
\* power_delivery
GenCable(vs, power_max) ==
  CableSpec(Chars("Gen"), Chars("Generated"), <<>>,
            AsSeq([i \in DOMAIN vs |->
               Protocol(<<"v", Digits[i + 1]>>, Chars("1.0"), vs[i][1], vs[i][2], <<>>)]),
            FALSE, power_max, <<>>, <<>>, <<>>)

MetricInputs ==
  {[fn |-> "metric", cable |-> GenCable(vs, pm)] :
     vs \in SeqsUpTo(Rates \X PowerTexts, MaxVariants), pm \in PowerMaxes}

TypeAlphabet == {"A", "b", "1", "-", " "}

GenTypes ==
  (SeqsUpTo(TypeAlphabet, MaxLen) \ {<<>>}) \cup {Chars("USB-C"), Chars("HDMI 2.1!!")}

NotesTexts ==
  {<<>>, Chars("Obsolete"), Chars("A legacy port"), Chars("Being Phased Out"),
   Chars("Deprecated"), Chars("Current")}

PointTexts ==
  {Chars("Now OBSOLETE"), Chars("Deprecated in 2020"), Chars("legacy"),
   Chars("phased out"), Chars("Looks like USB")}

FiveDevices == <<Chars("PC"), Chars("TV"), Chars("A&V"), Chars("DVD"), Chars("Amp")>>

\* reversible, max_rate_mbps, max_power and common_devices, varied together
Looks ==
  {<<FALSE, 480, Null, <<>>>>, <<TRUE, 2500, Some(60), FiveDevices>>,
   <<FALSE, 0, Some(0), SubSeq(FiveDevices, 1, 3)>>}

CardInputs ==
  {[fn |-> "card", highlightTerm |-> <<>>,
    cable |-> ClientCable(type, Chars("Generated"), Chars("usb"), Chars("USB"),
                          480, Null, FALSE, <<>>, <<>>, <<>>)] : type \in GenTypes}
  \cup
  {[fn |-> "card", highlightTerm |-> Chars("vga"),
    cable |-> ClientCable(Chars("VGA"), Chars("Video Graphics Array"), Chars("video"),
                          Chars("Video"), look[2], look[3], look[1], look[4], points, notes)] :
     look \in Looks, points \in SeqsUpTo(PointTexts, MaxPoints), notes \in NotesTexts}

TextAlphabet == {"a", "M", "p", "&", "<"}

HighlightTerms ==
  {<<>>, Chars("a"), Chars("amp"), Chars("AM"), Chars("&"), Chars("lt"), Chars("usb")}

TextInputs ==
  {[fn |-> "text", text |-> text, term |-> term] :
     text \in SeqsUpTo(TextAlphabet, MaxLen) \cup {Chars("USB-C")}, term \in HighlightTerms}

PureInit ==
  /\ \/ input \in MetricInputs
     \/ input \in CardInputs
     \/ input \in TextInputs
  /\ store = [d \in DirNames |-> <<>>]
  /\ call = "init"
  /\ output = Null
  /\ logged = 0
  /\ link = Null

GetMaxDataRate ==
  /\ call = "init" /\ input.fn = "metric"
  /\ call' = "getMaxDataRate"
  /\ output' = getMaxDataRate(input.cable)
  /\ UNCHANGED <<store, input, logged, link>>

GetNormalizedPowerWatts ==
  /\ call = "init" /\ input.fn = "metric"
  /\ call' = "getNormalizedPowerWatts"
  /\ output' = getNormalizedPowerWatts(input.cable)
  /\ UNCHANGED <<store, input, logged, link>>

CreateCableCard ==
  /\ call = "init" /\ input.fn = "card"
  /\ call' = "createCableCard"
  /\ output' = createCableCard(input.cable, input.highlightTerm)
  /\ UNCHANGED <<store, input, logged, link>>

HighlightText ==
  /\ call = "init" /\ input.fn = "text"
  /\ call' = "highlightText"
  /\ output' = highlightText(input.text, input.term)
  /\ UNCHANGED <<store, input, logged, link>>

PureNext ==
  \/ GetMaxDataRate
  \/ GetNormalizedPowerWatts
  \/ CreateCableCard
  \/ HighlightText

PureSpec == PureInit /\ [][PureNext]_vars

----------------------------------------------------------------------------
(* The claims *)

\* the .json files of the directory loadCategoryData was called on
JsonFilesRead == SelectSeq(store[input], LAMBDA f : f.json)

\* C1: loadCategoryData on a directory whose .json files are well-formed but
\* for one malformed file returns exactly the well-formed records and logs
\* exactly one error.
C1_MalformedFileAloneDropped ==
  (/\ call = "loadCategoryData"
   /\ input \in DOMAIN store
   /\ Cardinality({i \in DOMAIN JsonFilesRead : JsonFilesRead[i].parsed = Null}) = 1)
  => /\ logged = 1
     /\ Len(output) = Len(JsonFilesRead) - 1
     /\ \A i \in DOMAIN JsonFilesRead :
          JsonFilesRead[i].parsed # Null => JsonFilesRead[i].parsed[1] \in Range(output)

\* the declared electrical.power_max of cable is present and at least p
\* thousandths of a watt
DeclaresAtLeast(cable, p) ==
  /\ cable.electrical.power_max # Null
  /\ cable.electrical.power_max[1] * 1000 >= p

\* some protocol variant of cable has a data rate of at least t thousandths
\* of a Mbps
VariantAtLeast(cable, t) ==
  \E i \in DOMAIN cable.protocols : cable.protocols[i].data_rate_mbps * 1000 >= t

\* C2 as stated: for a query with a power threshold P, searchCables returns
\* only records whose declared power_max is present and at least P.
C2_OnlyDeclaredPower ==
  (call = "searchCables" /\ targetPower(input) # Null)
  => \A i \in DOMAIN output : DeclaresAtLeast(output[i], targetPower(input)[1])

\* C2 as amended: for a query with a power threshold P, every record that
\* searchCables returns declares a power_max of at least P, or matches the
\* text of the query, or has a variant at the data-rate threshold of the
\* query; the wattage in a power_delivery text alone never brings a record
\* into the result.
C2_DeclaredPowerOrOtherMatch ==
  (call = "searchCables" /\ targetPower(input) # Null)
  => \A i \in DOMAIN output :
       \/ DeclaresAtLeast(output[i], targetPower(input)[1])
       \/ textMatch(output[i], toLowerCase(input))
       \/ /\ targetRateMbps(input) # Null
          /\ VariantAtLeast(output[i], targetRateMbps(input)[1])

\* a search for "100W" on a catalog that holds a record declaring 2500 W and
\* one with 100 W in its power_delivery text only: the first is returned,
\* the second is not
C2_Witness ==
  /\ call = "searchCables"
  /\ input = Chars("100W")
  /\ \E i \in DOMAIN catalogEntries(store) : catalogEntries(store)[i].cable = usbCLower
  /\ usbCLower \notin Range(output)
  /\ iecC13 \in Range(output)

\* C3: for a query with a data-rate threshold T (T = 0 included),
\* searchCables returns every record of the catalog that has a protocol
\* variant of at least T.
C3_EveryRecordAtRate ==
  (call = "searchCables" /\ targetRateMbps(input) # Null)
  => \A i \in DOMAIN catalogEntries(store) :
       VariantAtLeast(catalogEntries(store)[i].cable, targetRateMbps(input)[1])
       => catalogEntries(store)[i].cable \in Range(output)

\* C4 as stated: getMaxDataRate is at least 0, and is 0 exactly when the
\* record has no protocol variants.
C4_ZeroIffNoVariants ==
  call = "getMaxDataRate"
  => /\ output >= 0
     /\ (output = 0 <=> input.cable.protocols = <<>>)

\* C4 as amended: getMaxDataRate is at least 0, and is 0 exactly when no
\* protocol variant of the record has a positive data_rate_mbps.
C4_ZeroIffNoPositiveVariant ==
  call = "getMaxDataRate"
  => /\ output >= 0
     /\ (output = 0 <=>
           \A i \in DOMAIN input.cable.protocols :
             input.cable.protocols[i].data_rate_mbps <= 0)

\* a record whose variants all declare 0 Mbps, next to records with variants
C4_Witness ==
  /\ call = "getMaxDataRate"
  /\ Len(input.cable.protocols) = MaxVariants
  /\ output = 0

\* C5: when the declared power_max is present, 0 included,
\* getNormalizedPowerWatts returns it, whatever the protocol text says.
C5_DeclaredPowerReturned ==
  (call = "getNormalizedPowerWatts" /\ input.cable.electrical.power_max # Null)
  => output = input.cable.electrical.power_max

\* the watts matched in the power_delivery texts of the variants of cable
MatchedWatts(cable) ==
  {parseInt(wattMatch(cable.protocols[i].power_delivery)[1]) :
     i \in {j \in DOMAIN cable.protocols : wattMatch(cable.protocols[j].power_delivery) # Null}}

\* C6: when the declared power_max is absent, getNormalizedPowerWatts returns
\* the maximum of the watts matched in the variants' power_delivery texts if
\* any matched (a matched 0 is returned as 0), and null exactly when none did.
C6_TextFallback ==
  (call = "getNormalizedPowerWatts" /\ input.cable.electrical.power_max = Null)
  => IF MatchedWatts(input.cable) # {}
     THEN output = Some(Max(MatchedWatts(input.cable)))
     ELSE output = Null

NoDoubleDash(slug) == \A i \in 1..(Len(slug) - 1) : ~(slug[i] = "-" /\ slug[i + 1] = "-")

\* C7: the slug of a type, in the card link and in getCableBySlug, is the
\* lower-cased type with every maximal run of characters outside [a-z0-9]
\* replaced by one '-'; it never holds two consecutive '-'.
C7_SlugCollapsesRuns ==
  call = "createCableCard"
  => /\ output.href.slug = SlugifyRuns(input.cable.type, Len(input.cable.type))
     /\ cableSlug(input.cable.type) = SlugifyRuns(input.cable.type, Len(input.cable.type))
     /\ NoDoubleDash(output.href.slug)

LegacyKeywords == {Chars("obsolete"), Chars("legacy"), Chars("phased out"), Chars("deprecated")}

\* C8: the card carries the Legacy badge exactly when the notes or one of
\* the confusion points contains, ignoring case, one of the four keywords.
C8_LegacyBadge ==
  call = "createCableCard"
  => (Badge("badge-muted", Chars("Legacy")) \in Range(output.badges)
      <=> \E kw \in LegacyKeywords :
            \/ includes(toLowerCase(input.cable.notes), kw)
            \/ \E i \in DOMAIN input.cable.confusion_points :
                 includes(toLowerCase(input.cable.confusion_points[i]), kw))

\* the occurrences of term in text from index i on, left to right without
\* overlap, each wrapped and escaped, the text between them escaped
RECURSIVE HighlightOriginal(_, _, _)
HighlightOriginal(text, i, term) ==
  IF i > Len(text) THEN <<>>
  ELSE IF /\ i + Len(term) - 1 <= Len(text)
          /\ toLowerCase(SubSeq(text, i, i + Len(term) - 1)) = toLowerCase(term)
       THEN <<MarkOpen>> \o escapeHtml(SubSeq(text, i, i + Len(term) - 1)) \o <<MarkClose>>
              \o HighlightOriginal(text, i + Len(term), term)
       ELSE escapeHtml(<<text[i]>>) \o HighlightOriginal(text, i + 1, term)

\* C9: for a non-empty term, highlightText wraps exactly the occurrences of
\* the term in the original text, and nothing that escaping introduced; the
\* output without the wrappers is the escaped text.
C9_HighlightsOriginalText ==
  (call = "highlightText" /\ input.term # <<>>)
  => /\ output = HighlightOriginal(input.text, 1, input.term)
     /\ SelectSeq(output, LAMBDA c : c \notin {MarkOpen, MarkClose}) = escapeHtml(input.text)

\* C10: the link of the card of a loaded record R leads back: getCableBySlug
\* on its slug, which is the slug getCableBySlug computes for R, returns not
\* null but the first record of the catalog with that slug, with the slug of
\* that record's category; that is R when no earlier record has the slug.
C10_LinkRoundTrip ==
  (call = "getCableBySlug" /\ link # Null)
  => \E entries \in {catalogEntries(store)} :
       \E first \in {Min({i \in 1..link[1].from :
                            cableSlug(entries[i].cable.type)
                              = cableSlug(entries[link[1].from].cable.type)})} :
         /\ input = link[1].href.slug
         /\ input = cableSlug(entries[link[1].from].cable.type)
         /\ output # Null
         /\ output[1] = entries[first]
         /\ (first = link[1].from => output[1].cable = entries[link[1].from].cable)

\* the link of the second record is followed and leads to the first, another
\* record with the same slug
C10_Witness ==
  /\ call = "getCableBySlug"
  /\ link # Null
  /\ link[1].from = 2
  /\ output # Null
  /\ output[1] = catalogEntries(store)[1]
  /\ output[1].cable # catalogEntries(store)[2].cable

====
